---- MODULE Spec2Model ----
(***************************************************************************)
(* Model of the Doge Proxy request pipeline (src/server.js): the HTML      *)
(* rewriter modifyHtml and the route handler app.all('/proxy/*').          *)
(*                                                                         *)
(* Strings are sequences of tokens, so that startsWith, includes,          *)
(* concatenation and URL resolution are computed on their parts:           *)
(*   "https://a.com/s?q=1"  is  <<"https://", "a.com", "/s", "?", "q=1">>  *)
(***************************************************************************)
EXTENDS Naturals, Sequences, FiniteSets, TLC

VARIABLES
    pc,         \* position of the request handler / of the rewriter run
    reqUrl,     \* req.originalUrl of the inbound request
    method,     \* req.method
    targetUrl,  \* the handler's local targetUrl (modifyHtml's parameter)
    fetched,    \* the URLs handed to fetch(), in order
    response,   \* the upstream response fetch() resolved with
    route,      \* the pipeline stages the request went through
    error,      \* message of the error caught by the outer catch
    sent,       \* the responses written to the client, in order
    html,       \* modifyHtml's input document
    out         \* modifyHtml's serialized result

vars == <<pc, reqUrl, method, targetUrl, fetched, response, route, error, sent, html, out>>

(***************************************************************************)
(* Bounds of the model.                                                    *)
(***************************************************************************)
\* longest document (number of elements) given to modifyHtml
MaxElems == 2

(***************************************************************************)
(* Strings.                                                                *)
(***************************************************************************)
\* String.prototype.startsWith
StartsWith(s, p) == Len(s) >= Len(p) /\ SubSeq(s, 1, Len(p)) = p

\* String.prototype.includes, for a one-token needle
Includes(s, t) == \E i \in 1..Len(s) : s[i] = t

\* the tokens of s from position i on
From(s, i) == SubSeq(s, i, Len(s))

PROXY_PREFIX == <<"/proxy/">>

(***************************************************************************)
(* WHATWG URL, as new URL(input[, base]) computes it.                      *)
(***************************************************************************)
SpecialSchemes == {"http://", "https://"}
OpaqueSchemes == {"mailto:", "tel:", "javascript:"}
\* a host token outside this set (one with a space in it) makes new URL throw
ValidHosts == {"a.com", "b.com", "proxy.host"}
PathTokens == {"/", "/x", "/y", "/s", "/p", "/proxy/"}

InvalidURL == [ok |-> FALSE, href |-> <<>>, origin |-> <<>>]

\* an empty path of a special URL is serialized as "/"
NormalizePath(rest) ==
    IF rest = <<>> \/ rest[1] \notin PathTokens THEN <<"/">> \o rest ELSE rest

\* new URL(s) for an input that starts with a scheme
ParseAbsolute(s) ==
    IF s[1] \in SpecialSchemes
    THEN IF Len(s) >= 2 /\ s[2] \in ValidHosts
         THEN [ok |-> TRUE,
               href |-> <<s[1], s[2]>> \o NormalizePath(From(s, 3)),
               origin |-> <<s[1], s[2]>>]
         ELSE InvalidURL
    ELSE [ok |-> TRUE, href |-> s, origin |-> <<"null">>]

HasScheme(s) == s # <<>> /\ s[1] \in SpecialSchemes \cup OpaqueSchemes

\* new URL(s): no base, so s must be absolute
NewURL(s) == IF HasScheme(s) THEN ParseAbsolute(s) ELSE InvalidURL

\* the part of an href before its query and fragment
UpTo(s, stops) ==
    IF \E i \in 1..Len(s) : s[i] \in stops
    THEN SubSeq(s, 1, (CHOOSE i \in 1..Len(s) :
                          /\ s[i] \in stops
                          /\ \A j \in 1..(i-1) : s[j] \notin stops) - 1)
    ELSE s

\* new URL(s, base): base paths of the model have one segment, so the
\* directory a relative segment is resolved in is the root
NewURLBase(s, base) ==
    IF HasScheme(s) THEN ParseAbsolute(s)
    ELSE LET b == NewURL(base) IN
         IF ~b.ok \/ b.origin = <<"null">> THEN InvalidURL
         ELSE IF s = <<>> THEN [b EXCEPT !.href = UpTo(b.href, {"#"})]
         ELSE IF s[1] \in PathTokens THEN [b EXCEPT !.href = b.origin \o s]
         ELSE IF s[1] = "?" THEN [b EXCEPT !.href = UpTo(b.href, {"?", "#"}) \o s]
         ELSE IF s[1] = "#" THEN [b EXCEPT !.href = UpTo(b.href, {"#"}) \o s]
         ELSE [b EXCEPT !.href = b.origin \o <<"/">> \o s]

(***************************************************************************)
(* The document: the elements in document order. An element has a tag, the *)
(* attributes it carries and its text content.                             *)
(***************************************************************************)
Elem(tag, attrs, text) == [tag |-> tag, attrs |-> attrs, text |-> text]

hasAttribute(el, a) == a \in DOMAIN el.attrs

\* Element.setAttribute
setAttribute(el, a, v) ==
    [el EXCEPT !.attrs = [x \in (DOMAIN @) \cup {a} |-> IF x = a THEN v ELSE @[x]]]

Selector(tag, attr) == [tag |-> tag, attr |-> attr]

linkSelectors == <<
    Selector("a", "href"),
    Selector("link", "href"),
    Selector("script", "src"),
    Selector("img", "src"),
    Selector("iframe", "src"),
    Selector("embed", "src"),
    Selector("object", "data"),
    Selector("source", "src"),
    Selector("video", "src"),
    Selector("audio", "src"),
    Selector("form", "action") >>

\* Element.matches('tag[attr]')
Matches(el, sel) == el.tag = sel.tag /\ hasAttribute(el, sel.attr)

\* the attribute the loop body reads and rewrites
AttrOf(el) ==
    IF el.tag = "form" THEN "action"
    ELSE IF el.tag = "a" THEN "href"
    ELSE "src"

\* the early return of the loop body: a null or empty value, or one of the prefixes
Skipped(el, attr) ==
    \/ ~hasAttribute(el, attr)
    \/ el.attrs[attr] = <<>>
    \/ StartsWith(el.attrs[attr], <<"#">>)
    \/ StartsWith(el.attrs[attr], <<"mailto:">>)
    \/ StartsWith(el.attrs[attr], <<"tel:">>)
    \/ StartsWith(el.attrs[attr], <<"javascript:">>)

\* the try block without the origin comparison
RewriteResolvedUnmarked(el, attr, target) ==
    setAttribute(el, attr, PROXY_PREFIX \o NewURLBase(el.attrs[attr], target).href)

\* the try block: resolve, mark an off-site element, rewrite the attribute
RewriteResolved(el, attr, target) ==
    LET resolvedUrl == NewURLBase(el.attrs[attr], target).href
        resolvedOrigin == NewURL(resolvedUrl).origin
        marked == IF resolvedOrigin # NewURL(target).origin
                  THEN setAttribute(setAttribute(el, "target", <<"_blank">>),
                                    "rel", <<"noopener noreferrer">>)
                  ELSE el
    IN setAttribute(marked, attr, PROXY_PREFIX \o resolvedUrl)

\* the loop body with the target attribute set ahead of the resolution
RewriteElementMarkFirst(el, target) ==
    LET attr == AttrOf(el) IN
    IF Skipped(el, attr) THEN el
    ELSE IF ~NewURLBase(el.attrs[attr], target).ok
         THEN setAttribute(el, "target", <<"_blank">>)
         ELSE RewriteResolved(el, attr, target)

\* the body of the inner forEach for one element; a URL that does not
\* parse throws before any setAttribute and the catch leaves the element
RewriteElement(el, target) ==
    LET attr == AttrOf(el) IN
    IF Skipped(el, attr) THEN el
    ELSE IF ~NewURLBase(el.attrs[attr], target).ok THEN el
    ELSE RewriteResolved(el, attr, target)

\* document.querySelectorAll(selector).forEach(...)
RewriteSelector(doc, sel, target) ==
    [i \in 1..Len(doc) |->
        IF Matches(doc[i], sel) THEN RewriteElement(doc[i], target) ELSE doc[i]]

\* linkSelectors.forEach(...): the first n selectors, in order
RECURSIVE RewriteLinks(_, _, _)
RewriteLinks(doc, n, target) ==
    IF n = 0 THEN doc
    ELSE RewriteSelector(RewriteLinks(doc, n - 1, target), linkSelectors[n], target)

FrameBustMarks == {"top.location", "frame busting", "if (top != self)"}

\* the frame-busting pass over every script element
RemoveFrameBusting(doc) ==
    [i \in 1..Len(doc) |->
        IF doc[i].tag = "script" /\ \E m \in FrameBustMarks : Includes(doc[i].text, m)
        THEN [doc[i] EXCEPT !.text = <<"// Frame busting removed">>]
        ELSE doc[i]]

HasBase(doc) == \E i \in 1..Len(doc) : doc[i].tag = "base"

BaseElement(target) ==
    Elem("base",
         [a \in {"href", "target"} |->
             IF a = "href" THEN NewURL(target).origin \o <<"/">> ELSE <<"_blank">>],
         <<>>)

\* the base element goes in front of head's first child
AddBase(doc, target) ==
    IF HasBase(doc) THEN doc ELSE <<BaseElement(target)>> \o doc

\* modifyHtml(html, targetUrl), on a target that parses
modifyHtml(doc, target) ==
    AddBase(RemoveFrameBusting(RewriteLinks(doc, Len(linkSelectors), target)), target)

(***************************************************************************)
(* The route handler app.all('/proxy/*').                                  *)
(***************************************************************************)
\* req.params[0]: the router matches '/proxy/*' against the path of the
\* request URL, which ends where the query string starts
Params0(url) == From(UpTo(url, {"?"}), Len(PROXY_PREFIX) + 1)

\* "Add protocol if missing"
AddProtocol(t) ==
    IF ~StartsWith(t, <<"http://">>) /\ ~StartsWith(t, <<"https://">>)
    THEN <<"https://">> \o t
    ELSE t

NoHeaders == [n \in {} |-> <<>>]

\* res.set(name, value)
SetHeader(headers, n, v) ==
    [x \in (DOMAIN headers) \cup {n} |-> IF x = n THEN v ELSE headers[x]]

\* the headers of res when the handler starts: the cache middleware ran
MiddlewareHeaders ==
    SetHeader(NoHeaders, "cache-control", <<"no-cache, no-store, must-revalidate">>)

Body(kind, doc, msg) == [kind |-> kind, doc |-> doc, msg |-> msg]

NoBody == Body("none", <<>>, "")

Reply(status, headers, body) == [status |-> status, headers |-> headers, body |-> body]

\* res.redirect(url)
Redirect(url) ==
    Reply(302, SetHeader(MiddlewareHeaders, "location", url), Body("redirect", <<>>, ""))

HomeLink == Elem("a", [a \in {"href"} |-> <<"/">>], <<"Go Back Home">>)

\* the outer catch: res.status(502).send(<error page with error.message>)
ErrorReply(msg) == Reply(502, MiddlewareHeaders, Body("error_page", <<HomeLink>>, msg))

\* response.status >= 300 && response.status < 400 && response.headers.get('location')
IsRedirect(r) ==
    /\ r.status >= 300
    /\ r.status < 400
    /\ "location" \in DOMAIN r.headers
    /\ r.headers["location"] # <<>>

\* the redirect without the resolution of Location against the target
RedirectLocationUnresolved(location, target) == PROXY_PREFIX \o location

\* '/proxy/' + new URL(location, targetUrl).href
RedirectLocation(location, target) == PROXY_PREFIX \o NewURLBase(location, target).href

\* response.headers.get('content-type') || ''
ContentTypeOf(r) ==
    IF "content-type" \in DOMAIN r.headers THEN r.headers["content-type"] ELSE <<>>

\* contentType.includes('text/html')
IsHtml(contentType) == Includes(contentType, "text/html")

\* an allow-list that lets cookies through
safeHeadersWithCookies ==
    {"content-type", "content-length", "cache-control", "last-modified", "etag", "set-cookie"}

safeHeaders == {"content-type", "content-length", "cache-control", "last-modified", "etag"}

\* response.headers.forEach: copy the headers named in safeHeaders
RECURSIVE CopySafe(_, _, _)
CopySafe(headers, upstream, names) ==
    IF names = {} THEN headers
    ELSE LET n == CHOOSE x \in names : TRUE IN
         CopySafe(IF n \in safeHeaders THEN SetHeader(headers, n, upstream[n]) ELSE headers,
                  upstream, names \ {n})

\* the else branch: filtered headers, the marker, the upstream status and body
PassThrough(r) ==
    Reply(r.status,
          SetHeader(CopySafe(MiddlewareHeaders, r.headers, DOMAIN r.headers),
                    "x-proxy-by", <<"DogeProxy">>),
          r.body)

\* new JSDOM(html, ...) on the decoded buffer: markup gives its elements,
\* other bytes a document without elements
ParsedDoc(body) == IF body.kind = "html" THEN body.doc ELSE <<>>

\* the HTML branch: the rewritten document, or on a throw of modifyHtml the
\* untouched buffer under the upstream content type; the status is not set
RewriteOrFallback(r, target) ==
    IF r.body.kind # "unparseable"
    THEN Reply(200,
               SetHeader(MiddlewareHeaders, "content-type", <<"text/html", "; charset=utf-8">>),
               Body("html", modifyHtml(ParsedDoc(r.body), target), ""))
    ELSE Reply(200, SetHeader(MiddlewareHeaders, "content-type", ContentTypeOf(r)), r.body)

(***************************************************************************)
(* Inputs.                                                                 *)
(***************************************************************************)
RefRelative == <<"/x">>
RefAbsolute == <<"https://", "b.com", "/y">>
RefMalformed == <<"https://", "exa mple">>
RefSkips == { <<>>, <<"#", "sec">>, <<"mailto:", "a@b.com">>, <<"tel:", "123">>,
              <<"javascript:", "void(0)">> }

Attr1(a, v) == [x \in {a} |-> v]

Elements ==
    { Elem(linkSelectors[k].tag, Attr1(linkSelectors[k].attr, v), <<>>) :
          k \in 1..Len(linkSelectors), v \in {RefRelative, RefAbsolute} }
    \cup { Elem("a", Attr1("href", v), <<>>) : v \in RefSkips }
    \cup { Elem(t, Attr1(AttrOf(Elem(t, NoHeaders, <<>>)), RefMalformed), <<>>) : t \in {"a", "img"} }
    \cup { Elem("link", ("href" :> <<"#", "sec">>) @@ ("src" :> RefAbsolute), <<>>),
           Elem("a", ("href" :> <<"mailto:", "a@b.com">>) @@ ("target" :> <<"_self">>), <<>>),
           Elem("a", ("href" :> RefAbsolute) @@ ("target" :> <<"_self">>), <<>>),
           Elem("base", Attr1("href", <<"https://", "a.com", "/">>), <<>>),
           Elem("script", NoHeaders, <<"if (top != self)", "top.location", "= self.location">>),
           Elem("script", NoHeaders, <<"console.log(1)">>) }

Docs == UNION { [1..n -> Elements] : n \in 0..MaxElems }

Targets == { <<"https://", "a.com">>, <<"https://", "b.com", "/p">> }

Requests ==
    { PROXY_PREFIX,
      PROXY_PREFIX \o <<"?", "url=a.com">>,
      PROXY_PREFIX \o <<"a.com">>,
      PROXY_PREFIX \o <<"https://", "a.com", "/s", "?", "q=1">>,
      PROXY_PREFIX \o <<"http://", "b.com", "/p">>,
      PROXY_PREFIX \o <<"https://", "exa mple">> }

Methods == {"GET", "POST"}

Absent == <<"(absent)">>

Locations == { <<>>, <<"/y">>, <<"https://", "b.com", "/y">>, <<"https://", "exa mple">> }

ContentTypes == { <<"text/html">>, <<"text/html", "; charset=utf-8">>, <<"Text/HTML">>,
                  <<"TEXT/HTML", ";charset=x">>, <<"application/octet-stream">> }

ExtraHeaders == {"etag", "set-cookie", "x-proxy-by"}

UpstreamHeaders(loc, ct, extra) ==
    [n \in (IF loc # Absent THEN {"location"} ELSE {})
           \cup (IF ct # Absent THEN {"content-type"} ELSE {})
           \cup extra |->
        IF n = "location" THEN loc
        ELSE IF n = "content-type" THEN ct
        ELSE <<"upstream ", n>>]

UpstreamBodies ==
    { Body("html", <<Elem("a", Attr1("href", RefRelative), <<>>)>>, ""),
      Body("html", <<Elem("a", Attr1("href", RefMalformed), <<>>),
                     Elem("img", Attr1("src", RefAbsolute), <<>>)>>, ""),
      Body("bytes", <<>>, "0x89504e47"),
      Body("unparseable", <<>>, "") }

UpstreamResponses ==
    { Reply(s, UpstreamHeaders(loc, ct, extra), b) :
        s \in {200, 302, 404},
        loc \in Locations \cup {Absent},
        ct \in ContentTypes \cup {Absent},
        extra \in SUBSET ExtraHeaders,
        b \in UpstreamBodies }

NoResponse == Reply(0, NoHeaders, NoBody)

(***************************************************************************)
(* The request pipeline: one request from arrival to its response. The     *)
(* handler runs to its next await in one step.                             *)
(***************************************************************************)
Init ==
    /\ pc = "start"
    /\ reqUrl \in Requests
    /\ method \in Methods
    /\ targetUrl = <<>>
    /\ fetched = <<>>
    /\ response = NoResponse
    /\ route = <<>>
    /\ error = ""
    /\ sent = <<>>
    /\ html = <<>>
    /\ out = <<>>

\* a catch block that records the error and sends nothing
FailWithoutReply(msg) ==
    /\ error' = msg
    /\ sent' = sent
    /\ pc' = "done"

\* the catch block of the handler
Fail(msg) ==
    /\ error' = msg
    /\ sent' = Append(sent, ErrorReply(msg))
    /\ pc' = "done"

\* lines 104-131: the target is extracted, completed, parsed, and fetch is called
Begin ==
    /\ pc = "start"
    /\ LET p == Params0(reqUrl)
           t == AddProtocol(p)
       IN IF p = <<>>
          THEN /\ sent' = Append(sent, Redirect(<<"/">>))
               /\ pc' = "done"
               /\ UNCHANGED <<targetUrl, fetched, route, error>>
          ELSE /\ targetUrl' = t
               /\ IF NewURL(t).ok
                  THEN /\ fetched' = Append(fetched, t)
                       /\ route' = Append(route, "fetcher")
                       /\ pc' = "fetching"
                       /\ UNCHANGED <<error, sent>>
                  ELSE /\ Fail("Invalid URL")
                       /\ route' = Append(route, "error")
                       /\ UNCHANGED fetched
    /\ UNCHANGED <<reqUrl, method, response, html, out>>

\* fetch rejects: DNS, connection or TLS failure
FetchRejects ==
    /\ pc = "fetching"
    /\ Fail("getaddrinfo ENOTFOUND")
    /\ route' = Append(route, "error")
    /\ UNCHANGED <<reqUrl, method, targetUrl, fetched, response, html, out>>

\* fetch resolves (redirect: 'manual' hands a 3xx response to the handler):
\* lines 134-141, the redirect or on to reading the body
FetchResolves ==
    /\ pc = "fetching"
    /\ \E r \in UpstreamResponses :
        /\ response' = r
        /\ IF IsRedirect(r)
           THEN LET redirectUrl == NewURLBase(r.headers["location"], targetUrl) IN
                IF redirectUrl.ok
                THEN /\ sent' = Append(sent, Redirect(RedirectLocation(r.headers["location"], targetUrl)))
                     /\ route' = Append(route, "redirect")
                     /\ pc' = "done"
                     /\ UNCHANGED error
                ELSE /\ Fail("Invalid URL")
                     /\ route' = Append(route, "error")
           ELSE /\ pc' = "buffering"
                /\ UNCHANGED <<route, error, sent>>
    /\ UNCHANGED <<reqUrl, method, targetUrl, fetched, html, out>>

\* response.buffer() rejects: the body stream fails
BufferRejects ==
    /\ pc = "buffering"
    /\ Fail("Premature close")
    /\ route' = Append(route, "error")
    /\ UNCHANGED <<reqUrl, method, targetUrl, fetched, response, html, out>>

\* response.buffer() resolves: lines 143-171, rewrite or pass through
BufferResolves ==
    /\ pc = "buffering"
    /\ IF IsHtml(ContentTypeOf(response))
       THEN /\ sent' = Append(sent, RewriteOrFallback(response, targetUrl))
            /\ route' = route \o <<"classifier", "rewriter">>
       ELSE /\ sent' = Append(sent, PassThrough(response))
            /\ route' = route \o <<"classifier", "passthrough">>
    /\ pc' = "done"
    /\ UNCHANGED <<reqUrl, method, targetUrl, fetched, response, error, html, out>>

Next == Begin \/ FetchRejects \/ FetchResolves \/ BufferRejects \/ BufferResolves

Spec == Init /\ [][Next]_vars

(***************************************************************************)
(* The rewriter alone: modifyHtml applied to a document and a target.      *)
(***************************************************************************)
InitHtml ==
    /\ pc = "parsed"
    /\ html \in Docs
    /\ targetUrl \in Targets
    /\ out = <<>>
    /\ reqUrl = <<>>
    /\ method = "GET"
    /\ fetched = <<>>
    /\ response = NoResponse
    /\ route = <<>>
    /\ error = ""
    /\ sent = <<>>

Rewrite ==
    /\ pc = "parsed"
    /\ out' = modifyHtml(html, targetUrl)
    /\ pc' = "serialized"
    /\ UNCHANGED <<reqUrl, method, targetUrl, fetched, response, route, error, sent, html>>

NextHtml == Rewrite

SpecHtml == InitHtml /\ [][NextHtml]_vars

(***************************************************************************)
(* Properties of the rewriter (SpecHtml).                                  *)
(***************************************************************************)
\* where element i of the input stands in the output: behind an injected base
Offset == IF HasBase(html) THEN 0 ELSE 1

OutEl(i) == out[i + Offset]

\* a value that names no proxyable resource
NonProxyable(v) == v = <<>> \/ v[1] \in {"#", "mailto:", "tel:", "javascript:"}

RefAttrs == {"href", "src", "data", "action"}

\* attribute a of input element i has another value in the output
Rewritten(i, a) ==
    /\ a \in DOMAIN html[i].attrs
    /\ a \in DOMAIN OutEl(i).attrs
    /\ OutEl(i).attrs[a] # html[i].attrs[a]

\* the target and rel attributes of input element i are what they were
MarkUntouched(i) ==
    \A a \in {"target", "rel"} :
        /\ hasAttribute(OutEl(i), a) <=> hasAttribute(html[i], a)
        /\ hasAttribute(html[i], a) => OutEl(i).attrs[a] = html[i].attrs[a]

\* C1: every element matching one of the eleven (element, attribute) pairs
\* whose value is proxyable and resolves has that attribute equal to
\* '/proxy/' + the resolved URL in the output, link[href] and object[data]
\* included
C1_AttributeCoverage ==
    pc = "serialized" =>
        \A i \in 1..Len(html) : \A k \in 1..Len(linkSelectors) :
            LET el == html[i]
                a == linkSelectors[k].attr
            IN (/\ Matches(el, linkSelectors[k])
                /\ ~NonProxyable(el.attrs[a])
                /\ NewURLBase(el.attrs[a], targetUrl).ok)
               => OutEl(i).attrs[a] = PROXY_PREFIX \o NewURLBase(el.attrs[a], targetUrl).href

\* the address the client loaded the rewritten document from
ProxyOrigin == <<"http://", "proxy.host">>

DocumentURL == ProxyOrigin \o PROXY_PREFIX \o targetUrl

\* the base URL the client resolves the document's references against:
\* the href of the first base element
EffectiveBase(doc) ==
    IF \E i \in 1..Len(doc) : doc[i].tag = "base" /\ hasAttribute(doc[i], "href")
    THEN LET i == CHOOSE i \in 1..Len(doc) :
                     /\ doc[i].tag = "base" /\ hasAttribute(doc[i], "href")
                     /\ \A j \in 1..(i-1) : ~(doc[j].tag = "base" /\ hasAttribute(doc[j], "href"))
         IN NewURLBase(doc[i].attrs["href"], DocumentURL).href
    ELSE DocumentURL

\* C2: every rewritten reference of the output, resolved by the client
\* against the document's effective base URL, is the proxy route
\* '/proxy/<resolved absolute URL>' on the proxy's own host
C2_NavigationStaysInProxy ==
    pc = "serialized" =>
        \A i \in 1..Len(html) : \A a \in RefAttrs :
            Rewritten(i, a) =>
                NewURLBase(OutEl(i).attrs[a], EffectiveBase(out)).href
                    = ProxyOrigin \o PROXY_PREFIX \o NewURLBase(html[i].attrs[a], targetUrl).href

\* C8: an element whose relevant attribute (the one of its selector) is
\* empty or starts with '#', mailto:, tel: or javascript: keeps that value,
\* and its target and rel attributes are neither added nor changed
C8_NonProxyableUntouched ==
    pc = "serialized" =>
        \A i \in 1..Len(html) : \A k \in 1..Len(linkSelectors) :
            LET el == html[i]
                a == linkSelectors[k].attr
            IN (Matches(el, linkSelectors[k]) /\ NonProxyable(el.attrs[a]))
               => /\ OutEl(i).attrs[a] = el.attrs[a]
                  /\ MarkUntouched(i)

\* C9: a rewritten element carries '/proxy/' + its resolved URL, on the
\* target's origin or off it, and one whose resolved origin differs from
\* the target's has target="_blank" and rel="noopener noreferrer" as well
C9_OffSiteMarking ==
    pc = "serialized" =>
        \A i \in 1..Len(html) : \A a \in RefAttrs :
            Rewritten(i, a) =>
                LET r == NewURLBase(html[i].attrs[a], targetUrl) IN
                /\ r.ok
                /\ OutEl(i).attrs[a] = PROXY_PREFIX \o r.href
                /\ r.origin # NewURL(targetUrl).origin =>
                      /\ hasAttribute(OutEl(i), "target")
                      /\ OutEl(i).attrs["target"] = <<"_blank">>
                      /\ hasAttribute(OutEl(i), "rel")
                      /\ OutEl(i).attrs["rel"] = <<"noopener noreferrer">>

\* one document with an off-site and a same-site rewritten element
C9_Witness ==
    /\ pc = "serialized"
    /\ \E i \in 1..Len(html) : \E a \in RefAttrs :
          /\ Rewritten(i, a)
          /\ NewURLBase(html[i].attrs[a], targetUrl).origin # NewURL(targetUrl).origin
    /\ \E i \in 1..Len(html) : \E a \in RefAttrs :
          /\ Rewritten(i, a)
          /\ NewURLBase(html[i].attrs[a], targetUrl).origin = NewURL(targetUrl).origin

\* the resolution the loop attempts on element i throws
Failing(i) ==
    /\ \E k \in 1..Len(linkSelectors) : Matches(html[i], linkSelectors[k])
    /\ hasAttribute(html[i], AttrOf(html[i]))
    /\ ~NonProxyable(html[i].attrs[AttrOf(html[i])])
    /\ ~NewURLBase(html[i].attrs[AttrOf(html[i])], targetUrl).ok

FailingElems == { i \in 1..Len(html) : Failing(i) }

\* doc without the elements at the positions in S
Without(doc, S) ==
    LET keep == { i \in 1..Len(doc) : i \notin S } IN
    [j \in 1..Cardinality(keep) |->
        doc[CHOOSE i \in keep : Cardinality({x \in keep : x <= i}) = j]]

\* C10: an element whose resolution fails is output as it was input, the
\* other elements are output as modifyHtml outputs them for the document
\* without the failing ones, and the output has its base element and no
\* frame-busting script
C10_FailureIsolation ==
    (pc = "serialized" /\ FailingElems # {}) =>
        /\ \A i \in FailingElems : OutEl(i) = html[i]
        /\ Without(out, { i + Offset : i \in FailingElems })
              = modifyHtml(Without(html, FailingElems), targetUrl)
        /\ HasBase(out)
        /\ \A i \in 1..Len(out) :
              out[i].tag = "script" => \A m \in FrameBustMarks : ~Includes(out[i].text, m)

\* a failing element in front of an element that is rewritten
C10_Witness ==
    /\ pc = "serialized"
    /\ Len(html) = 2
    /\ Failing(1)
    /\ \E a \in RefAttrs : Rewritten(2, a)

(***************************************************************************)
(* Properties of the request pipeline (Spec).                              *)
(***************************************************************************)
\* the request URL behind the route prefix, query string included
Remainder(url) == From(url, Len(PROXY_PREFIX) + 1)

\* C3: the URL handed to fetch is the whole remainder of the request URL
\* after '/proxy/', query string included, with 'https://' in front when it
\* has no http:// or https:// scheme
C3_TargetExtraction ==
    \A i \in 1..Len(fetched) :
        fetched[i] = IF Remainder(reqUrl)[1] \in {"http://", "https://"}
                     THEN Remainder(reqUrl)
                     ELSE <<"https://">> \o Remainder(reqUrl)

Fetched == response # NoResponse

Is3xx == response.status >= 300 /\ response.status < 400

HasLocation == "location" \in DOMAIN response.headers

\* the one response is the redirect to '/proxy/' + Location resolved
\* against the target; no later stage ran and fetch was called once
RedirectTranslated ==
    /\ Len(sent) = 1
    /\ sent[1].status = 302
    /\ sent[1].headers["location"]
          = PROXY_PREFIX \o NewURLBase(response.headers["location"], targetUrl).href
    /\ \A stage \in {"classifier", "rewriter", "passthrough"} : ~Includes(route, stage)
    /\ fetched = <<targetUrl>>

\* C4, as stated: every 3xx response with a Location header ends the
\* pipeline with the translated redirect
C4_AnyLocationRedirects ==
    (pc = "done" /\ Fetched /\ Is3xx /\ HasLocation) => RedirectTranslated

\* C4, amended: a 3xx response with a non-empty Location that resolves
\* against the target ends the pipeline with the translated redirect; with
\* a Location that does not resolve it ends with the 502 error response;
\* with no Location, or an empty one, it goes on to the classifier
C4_RedirectTranslation ==
    /\ (pc = "done" /\ Fetched /\ Is3xx /\ HasLocation
            /\ response.headers["location"] # <<>>
            /\ NewURLBase(response.headers["location"], targetUrl).ok)
        => RedirectTranslated
    /\ (pc = "done" /\ Fetched /\ Is3xx /\ HasLocation
            /\ response.headers["location"] # <<>>
            /\ ~NewURLBase(response.headers["location"], targetUrl).ok)
        => (Len(sent) = 1 /\ sent[1].status = 502 /\ fetched = <<targetUrl>>)
    /\ (Fetched /\ Is3xx /\ (~HasLocation \/ response.headers["location"] = <<>>))
        => /\ pc \in {"buffering", "done"}
           /\ ~Includes(route, "redirect")
           /\ (pc = "done" /\ error = "") => Includes(route, "classifier")

\* a relative Location translated into a redirect
C4_Witness ==
    /\ pc = "done"
    /\ Fetched /\ Is3xx /\ HasLocation
    /\ response.headers["location"] = <<"/y">>
    /\ targetUrl = <<"http://", "b.com", "/p">>
    /\ sent[1].headers["location"] = <<"/proxy/", "http://", "b.com", "/y">>

LowerCase(t) == IF t \in {"Text/HTML", "TEXT/HTML"} THEN "text/html" ELSE t

\* the content type names text/html, in any letter case
NamesHtml(contentType) ==
    \E i \in 1..Len(contentType) : LowerCase(contentType[i]) = "text/html"

\* C5: a response that reaches the classifier goes to the HTML rewriter
\* exactly when its Content-Type contains 'text/html' in any letter case,
\* and to the passthrough relay otherwise
C5_Classification ==
    (pc = "done" /\ Includes(route, "classifier")) =>
        /\ Includes(route, "rewriter") <=> NamesHtml(ContentTypeOf(response))
        /\ Includes(route, "passthrough") <=> ~NamesHtml(ContentTypeOf(response))

\* C6: a request is never answered twice, a finished request was answered
\* once, and a request whose pipeline raised an error got the 502 page
\* with the error's message and a link to '/'
C6_SingleResponse ==
    /\ Len(sent) <= 1
    /\ pc = "done" <=> Len(sent) = 1
    /\ pc # "done" => ENABLED Next
    /\ (Includes(route, "error") \/ error # "") =>
          /\ pc = "done"
          /\ sent[1].status = 502
          /\ sent[1].body.kind = "error_page"
          /\ sent[1].body.msg = error
          /\ error # ""
          /\ \E i \in 1..Len(sent[1].body.doc) :
                /\ sent[1].body.doc[i].tag = "a"
                /\ sent[1].body.doc[i].attrs["href"] = <<"/">>
    /\ (pc = "done" /\ targetUrl # <<>> /\ ~NewURL(targetUrl).ok) => sent[1].status = 502

\* the body stream failed after a successful fetch and the request was answered
C6_Witness ==
    /\ pc = "done"
    /\ Fetched
    /\ error = "Premature close"
    /\ Len(sent) = 1

AllowList == {"content-type", "content-length", "cache-control", "last-modified", "etag"}

\* C7: a buffered non-redirect response whose content type is not HTML is
\* answered with the upstream status and body, the X-Proxy-By marker, the
\* upstream headers of the allow-list and no other upstream header
C7_PassthroughRelay ==
    (pc = "done" /\ Fetched /\ error = "" /\ ~Includes(route, "redirect")
        /\ ~NamesHtml(ContentTypeOf(response))) =>
        /\ Len(sent) = 1
        /\ sent[1].status = response.status
        /\ sent[1].body = response.body
        /\ "x-proxy-by" \in DOMAIN sent[1].headers
        /\ sent[1].headers["x-proxy-by"] = <<"DogeProxy">>
        /\ \A n \in DOMAIN response.headers :
              IF n \in AllowList
              THEN n \in DOMAIN sent[1].headers /\ sent[1].headers[n] = response.headers[n]
              ELSE n \in DOMAIN sent[1].headers => n = "x-proxy-by"
        /\ DOMAIN sent[1].headers \subseteq AllowList \cup {"x-proxy-by"}

\* a 404 with an etag, a cookie and a marker of its own, passed through
C7_Witness ==
    /\ pc = "done"
    /\ Includes(route, "passthrough")
    /\ response.status = 404
    /\ ContentTypeOf(response) = <<"application/octet-stream">>
    /\ {"etag", "set-cookie", "x-proxy-by"} \subseteq DOMAIN response.headers
    /\ sent[1].body = response.body

====
